---- MODULE Spec2Model ----
(***************************************************************************)
(* Reading-order reconstruction of link-wind/pdf:                          *)
(*   src/src/pipeline/reading_order.py  (resolver, normalizer, analyzer)   *)
(*   src/src/models/document.py         (Region, Page, PageLayout)         *)
(*   src/src/pipeline/pdf_pipeline.py   (PDFPipeline.process, steps 4-5)   *)
(*   src/src/config/settings.py         (ReadingOrderConfig)               *)
(*                                                                         *)
(* Python lists are modelled as functions over 0..n-1 so that region       *)
(* indices, ranks and positions keep the values they have in the source.   *)
(* The candidate stacks of parse_logits are sequences popped at the end.   *)
(***************************************************************************)
EXTENDS Integers, Sequences, FiniteSets, TLC

VARIABLES
    \* ---- parse_logits (one call of the resolver) ----
    logits,      \* the model's raw output, (length+2) x (length+2), CLS/EOS framed
    length,      \* number of regions of the call
    tie,         \* how argsort orders equal scores of one row (unspecified by torch)
    orders,      \* orders[i]: candidate stack of region i, best candidate last
    ret,         \* ret[i]: rank currently assigned to region i
    iteration,   \* the loop counter of parse_logits
    rpc,         \* position inside parse_logits
    prevRet,     \* ret at the start of the latest loop iteration (history)
    warned,      \* whether the iteration-cap warning has been logged
    \* ---- ReadingOrderAnalyzer.analyze_reading_order (one document) ----
    numPages,    \* len(document.pages)
    pageNum,     \* page_num of the for loop
    pc,          \* position inside analyze_reading_order
    pageKind,    \* the class of the current page: "Page" or "PageLayout"
    regions,     \* the regions of the current page by original index
    pageSize,    \* <<page.width, page.height>>; <<>> stands for None
    pageRegions, \* page.regions: the page's list, as original indices
    ro,          \* ro[i]: reading_order of the region with original index i
    normalized,  \* normalized_boxes of _layoutlmv3_order
    predicted,   \* predicted_orders of _layoutlmv3_order
    failure,     \* the step of the page that raised, "none" if none did
    trace,       \* the steps the current page went through (history)
    modelCalls,  \* calls of the ranking model for the current page (history)
    pagesDone,   \* pages whose processing has finished (history)
    failedPages, \* finished pages on which a step raised (history)
    \* ---- ModelSingleton.get_model called by concurrent workers ----
    models,      \* ModelSingleton._models: the instance cached for each key
    workers,     \* each worker's position in get_model and its local values
    inits,       \* per key, the models _init_model has returned (history)
    \* ---- PDFPipeline.process from step 4 on ----
    ppc,         \* position inside process
    config,      \* settings.reading_order: the attributes of the config object
    doc,         \* document.pages
    plog         \* what the run has done so far (history)

rvars == <<logits, length, tie, orders, ret, iteration, rpc, prevRet, warned>>

avars == <<numPages, pageNum, pc, pageKind, regions, pageSize, pageRegions, ro,
           normalized, predicted, failure, trace, modelCalls, pagesDone,
           failedPages>>

svars == <<models, workers, inits>>

pvars == <<ppc, config, doc, plog>>

vars == <<logits, length, tie, orders, ret, iteration, rpc, prevRet, warned,
          numPages, pageNum, pc, pageKind, regions, pageSize, pageRegions, ro,
          normalized, predicted, failure, trace, modelCalls, pagesDone,
          failedPages, models, workers, inits, ppc, config, doc, plog>>

----------------------------------------------------------------------------
(* Bounds of the explored inputs *)

MaxN == 3          \* every score matrix up to MaxN x MaxN is explored
MaxScore == 1      \* with scores 0..MaxScore
MaxCascade == 6    \* cascade matrices (long conflict chains) up to this size
FrameScore == 1000 \* the score written in the CLS/EOS framing rows and columns
MaxRotation == 4   \* rotation matrices (several conflicts at once) up to this size
MaxPages == 2      \* pages of a document
MaxListed == 3     \* regions of a page handed to the default ordering alone
MaxCoord == 2      \* their boxes lie on a grid of (MaxCoord + 1) x (MaxCoord + 1) places
ColumnPitch == 150 \* with this many pixels from one grid column to the next
Infinity == 100000 \* stands for float('inf') in a bbox coordinate
MaxDim == 3        \* page widths and heights handed to the normalization alone
MaxOutside == 1    \* their bbox corners lie in -MaxOutside..MaxDim+MaxOutside
MaxWorkers == 2    \* threads that call ModelSingleton.get_model at the same time
MaxDocPages == 2   \* pages of a document handed to PDFPipeline.process
MaxDetected == 2   \* regions the layout analysis found on such a page

(* Program constants *)

MAX_REGIONS == 200

----------------------------------------------------------------------------
(* Generic list helpers *)

Range(f) == {f[x] : x \in DOMAIN f}

EmptyList == [i \in {} |-> 0]

ListLen(f) == Cardinality(DOMAIN f)

IsPermutation(f, n) ==
    /\ DOMAIN f = 0..(n - 1)
    /\ Range(f) = 0..(n - 1)

\* Python's tuple comparison a < b for two tuples of integers
RECURSIVE TupleLess(_, _)
TupleLess(a, b) ==
    IF a = <<>> THEN b # <<>>
    ELSE IF b = <<>> THEN FALSE
    ELSE IF Head(a) # Head(b) THEN Head(a) < Head(b)
    ELSE TupleLess(Tail(a), Tail(b))

\* TLC evaluates an operator argument each time it is used; an argument
\* that is bound through a singleton set is evaluated once
TheValue(S) == CHOOSE v \in S : TRUE

\* the element at place r is the one with r - 1 elements before it
SortPlace(s, before) ==
    TheValue({[r \in 1..Len(ss) |-> ss[CHOOSE p \in 1..Len(ss) : bb[p] = r - 1]] :
                 ss \in {s}, bb \in {before}})

\* k[p] is the key of s[p]
SortKeyed(s, k) ==
    TheValue({SortPlace(ss, [p \in 1..Len(ss) |->
                             Cardinality({q \in 1..Len(ss) :
                                 \/ TupleLess(kk[q], kk[p])
                                 \/ kk[q] = kk[p] /\ q < p})]) :
                 ss \in {s}, kk \in {k}})

\* Python's sorted(s, key=...): ascending and stable; key[x] is a tuple.
\* An element goes behind the elements with a smaller key and behind the
\* earlier elements with an equal key.
Sorted(s, key) ==
    TheValue({SortKeyed(ss, [p \in 1..Len(ss) |-> kk[ss[p]]]) :
                 ss \in {s}, kk \in {key}})

\* the elements 0..n-1 as a sequence in ascending order
Ascending(n) == [p \in 1..n |-> p - 1]

----------------------------------------------------------------------------
(* parse_logits: the permutation resolver *)

\* the orders torch.argsort may give to equal scores of one row
TieOrders == {"low_column_first", "high_column_first"}

\* logits[1 : length + 1, :length]: drop the CLS row and everything behind
\* the length-th region row and the length-th column
SliceLogits(raw, n) ==
    [i \in 0..(n - 1) |-> [j \in 0..(n - 1) |-> raw[i + 1][j]]]

\* mutation: argsort(descending=True), the least preferred rank comes last
ArgsortRow_Descending(row, n, t) ==
    Sorted(Ascending(n),
           [j \in 0..(n - 1) |->
               <<0 - row[j], IF t = "low_column_first" THEN j ELSE 0 - j>>])

\* one row of logits.argsort(descending=False).tolist()
ArgsortRow(row, n, t) ==
    Sorted(Ascending(n),
           [j \in 0..(n - 1) |->
               <<row[j], IF t = "low_column_first" THEN j ELSE 0 - j>>])

Argsort(lg, n, t) == [i \in 0..(n - 1) |-> ArgsortRow(lg[i], n, t)]

\* mutation: the first candidate of every row is taken, not the last
InitialAssignment_First(ords, n) ==
    TheValue({[orders |-> [i \in 0..(n - 1) |-> Tail(oo[i])],
               ret    |-> [i \in 0..(n - 1) |-> Head(oo[i])]] :
                 oo \in {ords}})

\* ret = [o.pop() for o in orders]
InitialAssignment(ords, n) ==
    TheValue({[orders |-> [i \in 0..(n - 1) |-> SubSeq(oo[i], 1, Len(oo[i]) - 1)],
               ret    |-> [i \in 0..(n - 1) |-> oo[i][Len(oo[i])]]] :
                 oo \in {ords}})

\* order_to_idxes[order]: the regions holding the rank, in index order
IdxesOf(r, n, order) == SelectSeq(Ascending(n), LAMBDA i : r[i] = order)

\* the keys of order_to_idxes in insertion order (first appearance in ret)
OrderKeys(r, n) ==
    LET firstAt(k) == \A i \in 0..(k - 1) : r[i] # r[k]
        firsts == SelectSeq(Ascending(n), LAMBDA k : firstAt(k))
    IN [p \in 1..Len(firsts) |-> r[firsts[p]]]

\* the keys of conflicted_orders, in the order the for loop visits them
ConflictedOrders(r, n) ==
    TheValue({SelectSeq(OrderKeys(rr, n), LAMBDA k : Len(IdxesOf(rr, n, k)) > 1) :
                 rr \in {r}})

\* mutation: the sort is ascending, so the lowest logit keeps the rank
SortContenders_LowestWins(lg, n, idxes, order) ==
    Sorted(idxes, [i \in 0..(n - 1) |-> <<lg[i][order]>>])

\* mutation: equal logits end up in descending index order, as a reversed
\* ascending sort would leave them
SortContenders_LastWins(lg, n, idxes, order) ==
    Sorted(idxes, [i \in 0..(n - 1) |-> <<0 - lg[i][order], 0 - i>>])

\* sorted(idxes_to_logit.items(), key=lambda x: x[1], reverse=True):
\* descending logit, equal logits keep their index order
SortContenders(lg, n, idxes, order) ==
    Sorted(idxes, [i \in 0..(n - 1) |-> <<0 - lg[i][order]>>])

\* mutation: the loser takes the first unused position although it still
\* has candidates
ReassignLoser_Scan(st, n, idx) ==
    LET unused == {pos \in 0..(n - 1) : pos \notin Range(st.ret)}
    IN IF unused = {} THEN st
       ELSE [st EXCEPT !.ret[idx] =
                CHOOSE pos \in unused : \A q \in unused : pos <= q]

\* mutation: a loser throws its next candidate away and takes the one after
ReassignLoser_SkipsCandidate(st, n, idx) ==
    IF Len(st.orders[idx]) >= 2
    THEN [orders |-> [st.orders EXCEPT ![idx] = SubSeq(@, 1, Len(@) - 2)],
          ret    |-> [st.ret EXCEPT ![idx] = st.orders[idx][Len(st.orders[idx]) - 1]]]
    ELSE IF st.orders[idx] # <<>>
    THEN [orders |-> [st.orders EXCEPT ![idx] = <<>>],
          ret    |-> [st.ret EXCEPT ![idx] = st.orders[idx][1]]]
    ELSE LET unused == {pos \in 0..(n - 1) : pos \notin Range(st.ret)}
         IN IF unused = {} THEN st
            ELSE [st EXCEPT !.ret[idx] =
                     CHOOSE pos \in unused : \A q \in unused : pos <= q]

\* lines 296-304: one losing region takes its next candidate, or the first
\* unused position when its stack is empty
ReassignLoser(st, n, idx) ==
    IF st.orders[idx] # <<>>
    THEN [orders |-> [st.orders EXCEPT ![idx] = SubSeq(@, 1, Len(@) - 1)],
          ret    |-> [st.ret EXCEPT ![idx] = st.orders[idx][Len(st.orders[idx])]]]
    ELSE LET unused == {pos \in 0..(n - 1) : pos \notin Range(st.ret)}
         IN IF unused = {} THEN st
            ELSE [st EXCEPT !.ret[idx] =
                     CHOOSE pos \in unused : \A q \in unused : pos <= q]

RECURSIVE ReassignLosers(_, _, _)
ReassignLosers(st, n, losers) ==
    TheValue({IF ll = <<>> THEN ss
              ELSE TheValue({ReassignLosers(next, n, rest) :
                                next \in {ReassignLoser(ss, n, Head(ll))},
                                rest \in {Tail(ll)}}) :
                 ss \in {st}, ll \in {losers}})

\* lines 282-304 for one conflicted rank; idxes were collected before the
\* for loop started
ResolveConflict(st, lg, n, order, idxes) ==
    TheValue({ReassignLosers(st, n, losers) :
                 losers \in {Tail(SortContenders(lg, n, idxes, order))}})

\* the for loop over conflicted_orders, visiting the ranks in the order seq
RECURSIVE ResolveConflicts(_, _, _, _, _)
ResolveConflicts(st, lg, n, startRet, seq) ==
    TheValue({IF qq = <<>> THEN ss
              ELSE TheValue({ResolveConflicts(next, lg, n, startRet, rest) :
                                next \in {ResolveConflict(ss, lg, n, Head(qq),
                                              IdxesOf(startRet, n, Head(qq)))},
                                rest \in {Tail(qq)}}) :
                 ss \in {st}, qq \in {seq}})

\* the body of one while iteration that found conflicts
ResolveIteration(st, lg, n) ==
    TheValue({ResolveConflicts(ss, lg, n, ss.ret, ConflictedOrders(ss.ret, n)) :
                 ss \in {st}})

\* lines 264-309 from a given loop state: the value returned, the final
\* counter and whether the warning is logged
RECURSIVE ConflictLoop(_, _, _, _)
ConflictLoop(st, lg, n, it) ==
    IF it < n * 2
    THEN IF ConflictedOrders(st.ret, n) = <<>>
         THEN [ret |-> st.ret, iteration |-> it + 1, warned |-> it + 1 >= n * 2]
         ELSE TheValue({ConflictLoop(next, lg, n, it + 1) :
                           next \in {ResolveIteration(st, lg, n)}})
    ELSE [ret |-> st.ret, iteration |-> it, warned |-> it >= n * 2]

\* parse_logits(logits, length) as one call
parse_logits(raw, n, t) ==
    TheValue({ConflictLoop(st, lg, n, 0) :
                 lg \in {SliceLogits(raw, n)},
                 st \in {InitialAssignment(Argsort(SliceLogits(raw, n), n, t), n)}})

----------------------------------------------------------------------------
(* Score matrices the ranking model may answer with *)

\* the (n+2) x (n+2) output of the model whose region part is m
Framed(m, n) ==
    [i \in 0..(n + 1) |-> [j \in 0..(n + 1) |->
        IF i \in 1..n /\ j <= n - 1 THEN m[i - 1][j] ELSE FrameScore]]

SmallMatrices(n) == [0..(n - 1) -> [0..(n - 1) -> 0..MaxScore]]

\* n regions that all fight their way down the same hierarchy of ranks:
\* region k first asks for the rank region k-1 ends on (shifted by s), is
\* thrown out of it and then loses at the ranks of regions 0..k-2 in turn
CascadeMatrix(n, s) ==
    [k \in 0..(n - 1) |-> [c \in 0..(n - 1) |->
        LET j == (c + n - s) % n
            d == (n - k) * n
        IN IF j = k THEN d
           ELSE IF j = k - 1 THEN d + n - 1
           ELSE IF j < k THEN d + (k - 1 - j)
           ELSE d - (j - k)]]

\* every region has the same cyclic preference, started at its own rank
\* shift[i]; regions with equal shifts collide on every rank they ask for
RotationMatrix(n, shift) ==
    [i \in 0..(n - 1) |-> [j \in 0..(n - 1) |-> (j + shift[i]) % n]]

ScoreMatrices(n) ==
    (IF n <= MaxN THEN SmallMatrices(n) ELSE {})
    \cup (IF n <= MaxCascade THEN {CascadeMatrix(n, s) : s \in 0..(n - 1)} ELSE {})
    \cup (IF n <= MaxRotation
          THEN {RotationMatrix(n, shift) : shift \in [0..(n - 1) -> 0..(n - 1)]}
          ELSE {})

RankPermutations(n) == {f \in [0..(n - 1) -> 0..(n - 1)] : Range(f) = 0..(n - 1)}

\* region i scores 1 for rank f[i] and 0 for every other rank
PermutationMatrix(f, n) ==
    [i \in 0..(n - 1) |-> [j \in 0..(n - 1) |-> IF j = f[i] THEN 1 ELSE 0]]

\* the answers of the ranking model explored inside a document run
SignalMatrices(n) ==
    (IF n <= MaxN
     THEN {PermutationMatrix(f, n) : f \in RankPermutations(n)}
          \cup {[i \in 0..(n - 1) |-> [j \in 0..(n - 1) |-> 0]]}
     ELSE {})
    \cup (IF n <= MaxCascade THEN {CascadeMatrix(n, s) : s \in 0..(n - 1)} ELSE {})

----------------------------------------------------------------------------
(* Regions and pages (src/src/models/document.py) *)

\* Optional values: <<>> is None
None == <<>>

\* Region.reading_order is an int; NoneOrder stands for a missing or None
\* attribute, which line 523 tests for
NoneOrder == 0 - 1

RegionKinds == {"Header", "Title", "Text", "Table", "Footer"}

KindOf(i) ==
    CASE i % 5 = 0 -> "Text"
      [] i % 5 = 1 -> "Header"
      [] i % 5 = 2 -> "Table"
      [] i % 5 = 3 -> "Footer"
      [] OTHER     -> "Title"

Box(x1, y1, x2, y2) == <<x1, y1, x2, y2>>

\* the layouts of the pages of an explored document
Layouts == {"top_down", "bottom_up", "rows", "no_bbox", "overflow"}

LayoutBox(layout, i, n) ==
    CASE layout = "top_down"  -> Box(100, 10 * i, 900, 10 * i + 8)
      [] layout = "bottom_up" -> Box(100, 10 * (n - 1 - i), 900, 10 * (n - 1 - i) + 8)
      [] layout = "rows"      -> Box(10 * (n - i), 50 * (i % 2), 10 * (n - i) + 5,
                                     50 * (i % 2) + 40)
      [] layout = "no_bbox"   -> IF i % 2 = 0 THEN None
                                 ELSE Box(100, 10 * (n - i), 900, 10 * (n - i) + 8)
      [] OTHER                -> Box(100, 10 * (n - 1 - i), 900,
                                     IF i = n - 1 THEN Infinity
                                     ELSE 10 * (n - 1 - i) + 8)

LayoutRegions(layout, n) ==
    [i \in 0..(n - 1) |-> [region_type |-> KindOf(i), bbox |-> LayoutBox(layout, i, n)]]

\* the classes a page handed to the analyzer is an instance of
PageKinds == {"Page", "PageLayout"}

\* <<width, height>> of a page; Page.width and Page.height default to None
PageSizes == {<<<<2550>>, <<3300>>>>, <<None, None>>, <<<<0>>, <<3300>>>>,
              <<<<2550>>, <<0>>>>, <<<<0 - 2550>>, <<3300>>>>}

\* region counts of the explored pages
PageLengths == (0..MaxCascade) \cup {MAX_REGIONS, MAX_REGIONS + 1}

\* the reading_order the regions arrive with: the dataclass default 0
\* (document.py:167) or the detection index (layout_analyzer.py:291)
InitialOrder(kind, n) ==
    [i \in 0..(n - 1) |-> IF kind = "default" THEN 0 ELSE i]

\* the pages of the explored documents; the pages around MAX_REGIONS come
\* in fewer variants than the small ones
PageInputs ==
    {page \in [n : PageLengths, layout : Layouts, size : PageSizes,
               order : {"default", "detection_index"}, kind : PageKinds] :
        \/ page.n <= MaxCascade
        \/ /\ page.layout \in {"bottom_up", "overflow"}
           /\ page.size \in {<<<<2550>>, <<3300>>>>, <<None, None>>}
           /\ page.order = "default"
           /\ page.kind = "Page"}

----------------------------------------------------------------------------
(* coordinate_normalization *)

Max2(a, b) == IF a >= b THEN a ELSE b
Min2(a, b) == IF a <= b THEN a ELSE b

\* Python's round(a / b) for a >= 0 and b > 0: ties go to the even integer
RoundDiv(a, b) ==
    LET q == a \div b
        r == a % b
    IN IF 2 * r < b THEN q
       ELSE IF 2 * r > b THEN q + 1
       ELSE IF q % 2 = 0 THEN q ELSE q + 1

\* max(0, min(v, page)) followed by round(v * (1000.0 / page)); a clamped
\* value above 0 implies page > 0
ClampScale(v, page) ==
    LET c == Max2(0, Min2(v, page))
    IN IF c = 0 THEN 0 ELSE RoundDiv(c * 1000, page)

\* mutation: right and bottom are not lifted to left and top
NormalizeBox_NoLift(b, page_w, page_h) ==
    <<Max2(0, Min2(1000, ClampScale(b[1], page_w))),
      Max2(0, Min2(1000, ClampScale(b[2], page_h))),
      Max2(0, Min2(1000, ClampScale(b[3], page_w))),
      Max2(0, Min2(1000, ClampScale(b[4], page_h)))>>

NormalizeBox(b, page_w, page_h) ==
    LET left   == Max2(0, Min2(1000, ClampScale(b[1], page_w)))
        top    == Max2(0, Min2(1000, ClampScale(b[2], page_h)))
        right  == Max2(left, Min2(1000, ClampScale(b[3], page_w)))
        bottom == Max2(top, Min2(1000, ClampScale(b[4], page_h)))
    IN <<left, top, right, bottom>>

\* the assertion of lines 179-181
ValidBox(b) ==
    /\ 1000 >= b[3] /\ b[3] >= b[1] /\ b[1] >= 0
    /\ 1000 >= b[4] /\ b[4] >= b[2] /\ b[2] >= 0

\* 1000.0 / page_w raises for None (TypeError) and for 0 (ZeroDivisionError)
DivisionRaises(size) == size = None \/ size = <<0>>

\* the call as a whole: raised tells whether it ended in an exception
coordinate_normalization(boxes, size) ==
    IF DivisionRaises(size[1]) \/ DivisionRaises(size[2])
    THEN [raised |-> TRUE, boxes |-> EmptyList]
    ELSE TheValue({IF \A i \in DOMAIN out : ValidBox(out[i])
                   THEN [raised |-> FALSE, boxes |-> out]
                   ELSE [raised |-> TRUE, boxes |-> EmptyList] :
                      out \in {[i \in DOMAIN boxes |->
                                  NormalizeBox(boxes[i], size[1][1], size[2][1])]}})

----------------------------------------------------------------------------
(* ReadingOrderAnalyzer *)

\* mutation: the regions are ordered column by column, by their x-center
get_sort_key_center(region) ==
    IF region.bbox # None
    THEN <<region.bbox[1] + region.bbox[3], region.bbox[2]>>
    ELSE <<0, 0>>

\* mutation: bottom to top
get_sort_key_bottom_up(region) ==
    IF region.bbox # None THEN <<0 - region.bbox[2], region.bbox[1]>> ELSE <<0, 0>>

\* mutation: left to right before top to bottom
get_sort_key_xy(region) ==
    IF region.bbox # None THEN <<region.bbox[1], region.bbox[2]>> ELSE <<0, 0>>

\* get_sort_key of _set_default_reading_order
get_sort_key(region) ==
    IF region.bbox # None THEN <<region.bbox[2], region.bbox[1]>> ELSE <<0, 0>>

\* the for loops below run over Python lists: a list of original indices
ListSeq(f) == [p \in 1..ListLen(f) |-> f[p - 1]]
SeqList(q) == [i \in 0..(Len(q) - 1) |-> q[i + 1]]

\* mutation: the regions are numbered from 0
Enumerate_FromZero(order, listed) ==
    [i \in DOMAIN order |->
        LET at == {p \in 1..Len(listed) : listed[p] = i}
        IN IF at = {} THEN order[i]
           ELSE (CHOOSE p \in at : \A q \in at : q <= p) - 1]

\* lines 581-582: region.reading_order = i + 1 along a list of regions; a
\* region that is listed twice keeps the later number
Enumerate(order, listed) ==
    [i \in DOMAIN order |->
        LET at == {p \in 1..Len(listed) : listed[p] = i}
        IN IF at = {} THEN order[i]
           ELSE CHOOSE p \in at : \A q \in at : q <= p]

\* _set_default_reading_order: the reading_order of every region after it
set_default_reading_order(regs, page, order) ==
    TheValue({Enumerate(order, sorted_regions) :
                 sorted_regions \in
                     {Sorted(ListSeq(page),
                             [i \in DOMAIN regs |-> get_sort_key(regs[i])])}})

\* int(bbox.x1) ... int(bbox.y2) of lines 464-467; int(float('inf')) raises
ExtractRaises(regs) ==
    \E i \in DOMAIN regs :
        /\ regs[i].bbox # None
        /\ \E c \in 1..4 : regs[i].bbox[c] >= Infinity

\* lines 457-486
ExtractBoxes(regs) ==
    [i \in DOMAIN regs |->
        IF regs[i].bbox # None THEN regs[i].bbox ELSE Box(0, 0, 100, 100)]

\* lines 515-519: the writes of the first loop, position by position
RECURSIVE ApplyPredicted(_, _, _, _)
ApplyPredicted(st, pred, n, position) ==
    TheValue({IF position >= ListLen(pred) THEN ss
              ELSE LET region_idx == pred[position]
                   IN IF region_idx < n
                      THEN ApplyPredicted(
                               [order   |-> [ss.order EXCEPT ![region_idx] = position + 1],
                                ordered |-> Append(ss.ordered, region_idx)],
                               pred, n, position + 1)
                      ELSE ApplyPredicted(ss, pred, n, position + 1) :
                 ss \in {st}})

\* lines 522-525: regions that still have no reading_order go to the end
RECURSIVE AppendMissing(_, _, _)
AppendMissing(st, n, i) ==
    TheValue({IF i >= n THEN ss
              ELSE IF ss.order[i] = NoneOrder
                   THEN AppendMissing(
                            [order   |-> [ss.order EXCEPT ![i] = Len(ss.ordered) + 1],
                             ordered |-> Append(ss.ordered, i)],
                            n, i + 1)
                   ELSE AppendMissing(ss, n, i + 1) :
                 ss \in {st}})

\* lines 513-533 as a whole
ApplyOrder(order, pred, n) ==
    AppendMissing(ApplyPredicted([order |-> order, ordered |-> <<>>], pred, n, 0),
                  n, 0)

\* PageLayout.add_region: the list a region is put in. The regions of the
\* explored pages are text-like or tables, so formula_regions and
\* image_regions stay empty.
RegionList(region) ==
    IF region.region_type = "Table" THEN "table_regions" ELSE "text_regions"

\* PageLayout.all_regions (also PageLayout.regions) of a page whose lists
\* were filled in the order listed: the lists one after the other, sorted
\* by (reading_order, y1, x1); the sort raises on a region without bbox and
\* the unsorted list is returned
all_regions(listed, regs, order) ==
    TheValue({IF \E p \in 1..Len(concat) : regs[concat[p]].bbox = None
              THEN concat
              ELSE Sorted(concat,
                          [i \in DOMAIN regs |->
                              <<order[i], regs[i].bbox[2], regs[i].bbox[1]>>]) :
                 concat \in {SelectSeq(listed, LAMBDA i :
                                           RegionList(regs[i]) = "text_regions")
                             \o SelectSeq(listed, LAMBDA i :
                                           RegionList(regs[i]) = "table_regions")}})

\* _update_page_regions: page.regions after the page was given ordered
update_page_regions(kind, ordered, regs, order) ==
    IF kind = "PageLayout"
    THEN SeqList(all_regions(ordered, regs, order))
    ELSE SeqList(ordered)

\* _get_page_regions: the list the analyzer works on, as places of the
\* page content; region i of the analyzer is the i-th of this list
get_page_regions(kind, content, order) ==
    IF kind = "PageLayout"
    THEN all_regions(Ascending(ListLen(content)), content, order)
    ELSE Ascending(ListLen(content))

----------------------------------------------------------------------------
(* Values of the variables of the component a specification does not run *)

ResolverIdle ==
    /\ logits = EmptyList
    /\ length = 0
    /\ tie = "low_column_first"
    /\ orders = EmptyList
    /\ ret = EmptyList
    /\ prevRet = EmptyList
    /\ iteration = 0
    /\ rpc = "idle"
    /\ warned = FALSE

AnalyzerIdle ==
    /\ numPages = 0
    /\ pageNum = 0
    /\ pc = "idle"
    /\ pageKind = "Page"
    /\ regions = EmptyList
    /\ pageSize = <<None, None>>
    /\ pageRegions = EmptyList
    /\ ro = EmptyList
    /\ normalized = EmptyList
    /\ predicted = EmptyList
    /\ failure = "none"
    /\ trace = <<>>
    /\ modelCalls = 0
    /\ pagesDone = 0
    /\ failedPages = 0

SingletonIdle ==
    /\ models = EmptyList
    /\ workers = EmptyList
    /\ inits = EmptyList

PipelineIdle ==
    /\ ppc = "idle"
    /\ config = EmptyList
    /\ doc = <<>>
    /\ plog = <<>>

----------------------------------------------------------------------------
(* The resolver run step by step on every explored matrix *)

InitResolver ==
    /\ length \in 0..MaxCascade
    /\ \E m \in ScoreMatrices(length) : logits = Framed(m, length)
    /\ tie \in TieOrders
    /\ orders = EmptyList
    /\ ret = EmptyList
    /\ prevRet = EmptyList
    /\ iteration = 0
    /\ rpc = "call"
    /\ warned = FALSE
    /\ AnalyzerIdle
    /\ SingletonIdle
    /\ PipelineIdle

\* lines 254-265
ResolverStart ==
    /\ rpc = "call"
    /\ LET st == InitialAssignment(
                     Argsort(SliceLogits(logits, length), length, tie), length)
       IN /\ orders' = st.orders
          /\ ret' = st.ret
    /\ iteration' = 0
    /\ rpc' = "loop"
    /\ UNCHANGED <<logits, length, tie, prevRet, warned>>

\* mutation: while True, the loop has no iteration cap
ResolverIterate_NoCap ==
    /\ rpc = "loop"
    /\ ConflictedOrders(ret, length) # <<>>
    /\ LET st == ResolveIteration([orders |-> orders, ret |-> ret],
                                  SliceLogits(logits, length), length)
       IN /\ orders' = st.orders
          /\ ret' = st.ret
    /\ prevRet' = ret
    /\ iteration' = iteration + 1
    /\ UNCHANGED <<logits, length, tie, rpc, warned>>

\* one pass of the while loop that finds conflicts and resolves them
ResolverIterate ==
    /\ rpc = "loop"
    /\ iteration < length * 2
    /\ ConflictedOrders(ret, length) # <<>>
    /\ LET st == ResolveIteration([orders |-> orders, ret |-> ret],
                                  SliceLogits(logits, length), length)
       IN /\ orders' = st.orders
          /\ ret' = st.ret
    /\ prevRet' = ret
    /\ iteration' = iteration + 1
    /\ UNCHANGED <<logits, length, tie, rpc, warned>>

\* the pass that finds no conflict: break, then lines 306-309
ResolverBreak ==
    /\ rpc = "loop"
    /\ iteration < length * 2
    /\ ConflictedOrders(ret, length) = <<>>
    /\ iteration' = iteration + 1
    /\ warned' = (iteration + 1 >= length * 2)
    /\ rpc' = "returned"
    /\ UNCHANGED <<logits, length, tie, orders, ret, prevRet>>

\* the while condition fails: lines 306-309
ResolverCap ==
    /\ rpc = "loop"
    /\ iteration >= length * 2
    /\ warned' = TRUE
    /\ rpc' = "returned"
    /\ UNCHANGED <<logits, length, tie, orders, ret, prevRet, iteration>>

NextResolver ==
    /\ \/ ResolverStart
       \/ ResolverIterate
       \/ ResolverBreak
       \/ ResolverCap
    /\ UNCHANGED <<avars, svars, pvars>>

SpecResolver == InitResolver /\ [][NextResolver]_vars

\* parse_logits is straight-line code around one loop: a call that has
\* started keeps running until it returns
FairSpecResolver == SpecResolver /\ WF_vars(NextResolver)

----------------------------------------------------------------------------
(* analyze_reading_order over a document *)

\* The pages of document.pages are independent of each other and untouched
\* until the for loop reaches them, so the content of a page is drawn when
\* the loop arrives at it.

Init ==
    /\ numPages \in 1..MaxPages
    /\ pageNum = 0
    /\ pc = "for_page"
    /\ pageKind = "Page"
    /\ regions = EmptyList
    /\ pageSize = <<None, None>>
    /\ pageRegions = EmptyList
    /\ ro = EmptyList
    /\ normalized = EmptyList
    /\ predicted = EmptyList
    /\ failure = "none"
    /\ trace = <<>>
    /\ modelCalls = 0
    /\ pagesDone = 0
    /\ failedPages = 0
    /\ ResolverIdle
    /\ SingletonIdle
    /\ PipelineIdle

\* line 380: the for loop takes the next page
ForPage ==
    /\ pc = "for_page"
    /\ pageNum < numPages
    /\ \E page \in PageInputs :
          \E got \in {get_page_regions(page.kind,
                                       LayoutRegions(page.layout, page.n),
                                       InitialOrder(page.order, page.n))} :
             /\ pageKind' = page.kind
             /\ regions' = [i \in 0..(page.n - 1) |->
                               LayoutRegions(page.layout, page.n)[got[i + 1]]]
             /\ pageSize' = page.size
             /\ pageRegions' = [i \in 0..(page.n - 1) |-> i]
             /\ ro' = [i \in 0..(page.n - 1) |->
                          InitialOrder(page.order, page.n)[got[i + 1]]]
    /\ pc' = "analyze_page"
    /\ UNCHANGED <<numPages, pageNum, normalized, predicted, failure, trace,
                   modelCalls, pagesDone, failedPages>>

\* lines 391: the for loop is exhausted
ForDone ==
    /\ pc = "for_page"
    /\ pageNum >= numPages
    /\ pc' = "finished"
    /\ UNCHANGED <<numPages, pageNum, pageKind, regions, pageSize, pageRegions, ro,
                   normalized, predicted, failure, trace, modelCalls, pagesDone,
                   failedPages>>

\* mutation: the limit itself is refused
ExceedsCapacity_AtLimit(n) == n >= MAX_REGIONS

\* line 418: len(regions) > MAX_REGIONS
ExceedsCapacity(n) == n > MAX_REGIONS

\* mutation: a page with a single region is sent to the ranking model
AnalyzePage_SingleToModel ==
    /\ pc = "analyze_page"
    /\ LET n == ListLen(pageRegions)
       IN \/ /\ n = 0
             /\ trace' = Append(trace, "empty")
             /\ pc' = "page_done"
             /\ UNCHANGED ro
          \/ /\ n >= 1
             /\ ExceedsCapacity(n)
             /\ ro' = set_default_reading_order(regions, pageRegions, ro)
             /\ trace' = Append(trace, "capacity_default")
             /\ pc' = "page_done"
          \/ /\ n >= 1
             /\ ~ExceedsCapacity(n)
             /\ trace' = Append(trace, "layoutlmv3_order")
             /\ pc' = "extract"
             /\ UNCHANGED ro
    /\ UNCHANGED <<numPages, pageNum, pageKind, regions, pageSize, pageRegions,
                   normalized, predicted, failure, modelCalls, pagesDone,
                   failedPages>>

\* _analyze_page_reading_order, lines 405-421: the pages that need no model
AnalyzePage ==
    /\ pc = "analyze_page"
    /\ LET n == ListLen(pageRegions)
       IN \/ /\ n = 0
             /\ trace' = Append(trace, "empty")
             /\ pc' = "page_done"
             /\ UNCHANGED ro
          \/ /\ n = 1
             /\ ro' = [ro EXCEPT ![pageRegions[0]] = 1]
             /\ trace' = Append(trace, "single")
             /\ pc' = "page_done"
          \/ /\ n > 1
             /\ ExceedsCapacity(n)
             /\ ro' = set_default_reading_order(regions, pageRegions, ro)
             /\ trace' = Append(trace, "capacity_default")
             /\ pc' = "page_done"
          \/ /\ n > 1
             /\ ~ExceedsCapacity(n)
             /\ trace' = Append(trace, "layoutlmv3_order")
             /\ pc' = "extract"
             /\ UNCHANGED ro
    /\ UNCHANGED <<numPages, pageNum, pageKind, regions, pageSize, pageRegions,
                   normalized, predicted, failure, modelCalls, pagesDone,
                   failedPages>>

\* _layoutlmv3_order, lines 456-496: outside the try block
Extract ==
    /\ pc = "extract"
    /\ IF ExtractRaises(regions)
       THEN /\ failure' = "extract"
            /\ pc' = "page_except"
       ELSE /\ pc' = "normalize"
            /\ UNCHANGED failure
    /\ trace' = Append(trace, "extract")
    /\ UNCHANGED <<numPages, pageNum, pageKind, regions, pageSize, pageRegions, ro,
                   normalized, predicted, modelCalls, pagesDone, failedPages>>

\* mutation: a failed normalization is ignored and the model is queried
Normalize_IgnoresError ==
    /\ pc = "normalize"
    /\ \E res \in {coordinate_normalization(ExtractBoxes(regions), pageSize)} :
          /\ normalized' = res.boxes
          /\ failure' = IF res.raised THEN "normalize" ELSE failure
    /\ pc' = "get_model"
    /\ trace' = Append(trace, "normalize")
    /\ UNCHANGED <<numPages, pageNum, pageKind, regions, pageSize, pageRegions, ro,
                   predicted, modelCalls, pagesDone, failedPages>>

\* line 500
Normalize ==
    /\ pc = "normalize"
    /\ \E res \in {coordinate_normalization(ExtractBoxes(regions), pageSize)} :
          IF res.raised
          THEN /\ failure' = "normalize"
               /\ pc' = "signal_except"
               /\ UNCHANGED normalized
          ELSE /\ normalized' = res.boxes
               /\ pc' = "get_model"
               /\ UNCHANGED failure
    /\ trace' = Append(trace, "normalize")
    /\ UNCHANGED <<numPages, pageNum, pageKind, regions, pageSize, pageRegions, ro,
                   predicted, modelCalls, pagesDone, failedPages>>

\* line 503: the constructor (line 364) has put the model in the cache, so
\* get_model returns the cached instance
GetModel ==
    /\ pc = "get_model"
    /\ trace' = Append(trace, "get_model")
    /\ pc' = "predict"
    /\ UNCHANGED <<numPages, pageNum, pageKind, regions, pageSize, pageRegions, ro,
                   normalized, predicted, failure, modelCalls, pagesDone,
                   failedPages>>

\* do_predict up to line 334: the ranking model is run on the boxes and
\* answers with its logits, or the inference raises
Infer ==
    /\ pc = "predict"
    /\ modelCalls' = modelCalls + 1
    /\ trace' = Append(trace, "predict")
    /\ \/ /\ failure' = "predict"
          /\ pc' = "signal_except"
          /\ UNCHANGED <<logits, length, tie>>
       \/ /\ \E m \in SignalMatrices(ListLen(normalized)) :
                logits' = Framed(m, ListLen(normalized))
          /\ length' = ListLen(normalized)
          /\ tie' \in TieOrders
          /\ pc' = "parse_logits"
          /\ UNCHANGED failure
    /\ UNCHANGED <<numPages, pageNum, pageKind, regions, pageSize, pageRegions, ro,
                   normalized, predicted, pagesDone, failedPages>>
    /\ UNCHANGED <<orders, ret, iteration, rpc, prevRet, warned>>

\* mutation: the ranks are written on the regions as soon as they are known
Resolve_WritesOrder ==
    /\ pc = "parse_logits"
    /\ predicted' = parse_logits(logits, length, tie).ret
    /\ ro' = [i \in DOMAIN ro |-> parse_logits(logits, length, tie).ret[i] + 1]
    /\ trace' = Append(trace, "parse_logits")
    /\ pc' = "apply"
    /\ UNCHANGED <<numPages, pageNum, pageKind, regions, pageSize, pageRegions,
                   normalized, failure, modelCalls, pagesDone, failedPages>>
    /\ UNCHANGED rvars

\* line 337: parse_logits(logits, len(boxes)) gives predicted_orders
Resolve ==
    /\ pc = "parse_logits"
    /\ predicted' = parse_logits(logits, length, tie).ret
    /\ trace' = Append(trace, "parse_logits")
    /\ pc' = "apply"
    /\ UNCHANGED <<numPages, pageNum, pageKind, regions, pageSize, pageRegions, ro,
                   normalized, failure, modelCalls, pagesDone, failedPages>>
    /\ UNCHANGED rvars

\* lines 513-533, then _update_page_regions (line 427) for a Page
Apply ==
    /\ pc = "apply"
    /\ \E res \in {ApplyOrder(ro, predicted, ListLen(regions))} :
          /\ ro' = res.order
          /\ pageRegions' = update_page_regions(pageKind, res.ordered, regions,
                                                res.order)
    /\ trace' = Append(trace, "apply")
    /\ pc' = "page_done"
    /\ UNCHANGED <<numPages, pageNum, pageKind, regions, pageSize, normalized, predicted,
                   failure, modelCalls, pagesDone, failedPages>>

\* mutation: the handler returns the regions without numbering them
SignalExcept_NoRenumber ==
    /\ pc = "signal_except"
    /\ pageRegions' = [i \in 0..(ListLen(regions) - 1) |-> i]
    /\ trace' = Append(trace, "original_order")
    /\ pc' = "page_done"
    /\ UNCHANGED <<numPages, pageNum, pageKind, regions, pageSize, ro, normalized,
                   predicted, failure, modelCalls, pagesDone, failedPages>>

\* mutation: the handler falls back to the default ordering
SignalExcept_Spatial ==
    /\ pc = "signal_except"
    /\ ro' = set_default_reading_order(regions, pageRegions, ro)
    /\ pageRegions' = [i \in 0..(ListLen(regions) - 1) |-> i]
    /\ trace' = Append(trace, "original_order")
    /\ pc' = "page_done"
    /\ UNCHANGED <<numPages, pageNum, pageKind, regions, pageSize, normalized, predicted,
                   failure, modelCalls, pagesDone, failedPages>>

\* lines 535-540, then _update_page_regions with the regions as they were
SignalExcept ==
    /\ pc = "signal_except"
    /\ ro' = [i \in DOMAIN ro |-> i + 1]
    /\ pageRegions' = update_page_regions(pageKind, Ascending(ListLen(regions)),
                                          regions, [i \in DOMAIN ro |-> i + 1])
    /\ trace' = Append(trace, "original_order")
    /\ pc' = "page_done"
    /\ UNCHANGED <<numPages, pageNum, pageKind, regions, pageSize, normalized, predicted,
                   failure, modelCalls, pagesDone, failedPages>>

\* mutation: nothing catches what escapes _analyze_page_reading_order
PageExcept_Unhandled ==
    /\ pc = "page_except"
    /\ pc' = "failed"
    /\ UNCHANGED <<numPages, pageNum, pageKind, regions, pageSize, pageRegions, ro,
                   normalized, predicted, failure, trace, modelCalls, pagesDone,
                   failedPages>>

\* lines 385-389: what escapes _analyze_page_reading_order
PageExcept ==
    /\ pc = "page_except"
    /\ ro' = set_default_reading_order(regions, pageRegions, ro)
    /\ trace' = Append(trace, "except_default")
    /\ pc' = "page_done"
    /\ UNCHANGED <<numPages, pageNum, pageKind, regions, pageSize, pageRegions,
                   normalized, predicted, failure, modelCalls, pagesDone,
                   failedPages>>

\* the for loop goes on with the next page; the finished page is not
\* touched again, so its values are dropped from the state
PageDone ==
    /\ pc = "page_done"
    /\ pageNum' = pageNum + 1
    /\ pagesDone' = pagesDone + 1
    /\ failedPages' = IF failure # "none" THEN failedPages + 1 ELSE failedPages
    /\ pc' = "for_page"
    /\ pageKind' = "Page"
    /\ regions' = EmptyList
    /\ pageSize' = <<None, None>>
    /\ pageRegions' = EmptyList
    /\ ro' = EmptyList
    /\ normalized' = EmptyList
    /\ predicted' = EmptyList
    /\ failure' = "none"
    /\ trace' = <<>>
    /\ modelCalls' = 0
    /\ logits' = EmptyList
    /\ length' = 0
    /\ tie' = "low_column_first"
    /\ UNCHANGED <<numPages, orders, ret, iteration, rpc, prevRet, warned>>

\* the steps that leave the variables of parse_logits alone
KeepsResolver(A) == A /\ UNCHANGED <<rvars, svars, pvars>>

\* the steps that work with the variables of parse_logits
KeepsOthers(A) == A /\ UNCHANGED <<svars, pvars>>

Next ==
    \/ KeepsResolver(ForPage)
    \/ KeepsResolver(ForDone)
    \/ KeepsResolver(AnalyzePage)
    \/ KeepsResolver(Extract)
    \/ KeepsResolver(Normalize)
    \/ KeepsResolver(GetModel)
    \/ KeepsOthers(Infer)
    \/ KeepsOthers(Resolve)
    \/ KeepsResolver(Apply)
    \/ KeepsResolver(SignalExcept)
    \/ KeepsResolver(PageExcept)
    \/ KeepsOthers(PageDone)

Spec == Init /\ [][Next]_vars

\* the steps of _analyze_page_reading_order and of the handler around it
PageStep ==
    \/ KeepsResolver(AnalyzePage)
    \/ KeepsResolver(Extract)
    \/ KeepsResolver(Normalize)
    \/ KeepsResolver(GetModel)
    \/ KeepsOthers(Infer)
    \/ KeepsOthers(Resolve)
    \/ KeepsResolver(Apply)
    \/ KeepsResolver(SignalExcept)
    \/ KeepsResolver(PageExcept)

\* the program is sequential: once a page is taken, its next step is taken
FairSpec == Spec /\ WF_vars(PageStep)

----------------------------------------------------------------------------
(* _set_default_reading_order alone, on every small page *)

ListedBoxes ==
    {None} \cup {Box(x * ColumnPitch, y, x * ColumnPitch + 1, y + 1) :
                    x \in 0..MaxCoord, y \in 0..MaxCoord}

ListedRegions ==
    [region_type : {"Header", "Title", "Text", "Footer"}, bbox : ListedBoxes]

InitDefault ==
    /\ \E n \in 1..MaxListed :
          /\ regions \in [0..(n - 1) -> ListedRegions]
          /\ pageRegions = [i \in 0..(n - 1) |-> i]
          /\ ro = [i \in 0..(n - 1) |-> 0]
    /\ numPages = 1
    /\ pageNum = 0
    /\ pc = "default_call"
    /\ pageKind = "Page"
    /\ pageSize = <<None, None>>
    /\ normalized = EmptyList
    /\ predicted = EmptyList
    /\ failure = "none"
    /\ trace = <<>>
    /\ modelCalls = 0
    /\ pagesDone = 0
    /\ failedPages = 0
    /\ ResolverIdle
    /\ SingletonIdle
    /\ PipelineIdle

\* lines 568-587
SetDefaultReadingOrder ==
    /\ pc = "default_call"
    /\ ro' = set_default_reading_order(regions, pageRegions, ro)
    /\ pc' = "default_done"
    /\ UNCHANGED <<numPages, pageNum, pageKind, regions, pageSize, pageRegions,
                   normalized, predicted, failure, trace, modelCalls, pagesDone,
                   failedPages>>

NextDefault ==
    /\ SetDefaultReadingOrder
    /\ UNCHANGED <<rvars, svars, pvars>>

SpecDefault == InitDefault /\ [][NextDefault]_vars

----------------------------------------------------------------------------
(* coordinate_normalization called on its own: one box, which may lie
   outside the page or be inverted, on a page of positive size *)

NormCoords == (0 - MaxOutside)..(MaxDim + MaxOutside)

InitNormalize ==
    /\ \E x1, y1, x2, y2 \in NormCoords :
          regions = [i \in {0} |-> [region_type |-> "Text",
                                    bbox |-> Box(x1, y1, x2, y2)]]
    /\ \E w, h \in 1..MaxDim : pageSize = <<<<w>>, <<h>>>>
    /\ pageRegions = [i \in {0} |-> i]
    /\ ro = [i \in {0} |-> 0]
    /\ numPages = 1
    /\ pageNum = 0
    /\ pc = "normalize_call"
    /\ pageKind = "Page"
    /\ normalized = EmptyList
    /\ predicted = EmptyList
    /\ failure = "none"
    /\ trace = <<>>
    /\ modelCalls = 0
    /\ pagesDone = 0
    /\ failedPages = 0
    /\ ResolverIdle
    /\ SingletonIdle
    /\ PipelineIdle

\* lines 143-185
CoordinateNormalization ==
    /\ pc = "normalize_call"
    /\ \E res \in {coordinate_normalization(ExtractBoxes(regions), pageSize)} :
          /\ normalized' = res.boxes
          /\ failure' = IF res.raised THEN "normalize" ELSE "none"
    /\ pc' = "normalize_done"
    /\ UNCHANGED <<numPages, pageNum, pageKind, regions, pageSize, pageRegions, ro,
                   predicted, trace, modelCalls, pagesDone, failedPages>>

NextNormalize ==
    /\ CoordinateNormalization
    /\ UNCHANGED <<rvars, svars, pvars>>

SpecNormalize == InitNormalize /\ [][NextNormalize]_vars

----------------------------------------------------------------------------
(* ModelSingleton.get_model called from several threads. The class has no
   lock; a thread can be suspended between any two statements, and
   _init_model loads a model from disk or network, so the other threads run
   while it does. *)

Workers == 1..MaxWorkers

\* cache_key = f"{model_path}_{device}"
ModelKeys == {"hantian/layoutreader_auto", "hantian/layoutreader_cpu"}

\* no instance; the instances of a key are numbered 1, 2, ... as
\* _init_model returns them
NoModel == 0

\* _models is a class attribute: it is empty when the process starts and
\* holds the instance of a key once a get_model call for it has finished
\* (the constructor of an earlier analyzer, line 364)
InitSingleton ==
    /\ models \in [ModelKeys -> {NoModel, 1}]
    /\ inits = [k \in ModelKeys |-> IF models[k] = NoModel THEN 0 ELSE 1]
    /\ workers \in [Workers -> [pc : {"get_model"}, key : ModelKeys,
                                made : {NoModel}, got : {NoModel}]]
    /\ ResolverIdle
    /\ AnalyzerIdle
    /\ PipelineIdle

\* line 92: if cache_key not in self._models
CacheLookup(w) ==
    /\ workers[w].pc = "get_model"
    /\ workers' = [workers EXCEPT ![w].pc =
                      IF models[workers[w].key] = NoModel
                      THEN "init_model" ELSE "return"]
    /\ UNCHANGED <<models, inits>>

\* lines 96-136: _init_model builds a new model and returns it
InitModel(w) ==
    /\ workers[w].pc = "init_model"
    /\ inits' = [inits EXCEPT ![workers[w].key] = @ + 1]
    /\ workers' = [workers EXCEPT ![w].pc = "store",
                                  ![w].made = inits[workers[w].key] + 1]
    /\ UNCHANGED models

\* lines 98-99 and 138-140: _init_model raises RuntimeError, which leaves
\* get_model before the assignment of line 93
InitModelFails(w) ==
    /\ workers[w].pc = "init_model"
    /\ workers' = [workers EXCEPT ![w].pc = "raised"]
    /\ UNCHANGED <<models, inits>>

\* line 93: self._models[cache_key] = <the model _init_model returned>
StoreModel(w) ==
    /\ workers[w].pc = "store"
    /\ models' = [models EXCEPT ![workers[w].key] = workers[w].made]
    /\ workers' = [workers EXCEPT ![w].pc = "return"]
    /\ UNCHANGED inits

\* line 94: return self._models[cache_key]
ReturnModel(w) ==
    /\ workers[w].pc = "return"
    /\ workers' = [workers EXCEPT ![w].pc = "returned",
                                  ![w].got = models[workers[w].key]]
    /\ UNCHANGED <<models, inits>>

NextSingleton ==
    /\ \/ \E w \in Workers : CacheLookup(w)
       \/ \E w \in Workers : InitModel(w)
       \/ \E w \in Workers : InitModelFails(w)
       \/ \E w \in Workers : StoreModel(w)
       \/ \E w \in Workers : ReturnModel(w)
    /\ UNCHANGED <<rvars, avars, pvars>>

SpecSingleton == InitSingleton /\ [][NextSingleton]_vars

----------------------------------------------------------------------------
(* PDFPipeline.process from step 4 on (src/src/pipeline/pdf_pipeline.py);
   steps 1 to 3 have succeeded and left document.pages filled with Page
   objects *)

\* ReadingOrderConfig() as the dataclass declares it (settings.py:110-126)
DefaultConfig ==
    [algorithm |-> "layoutreader", column_detection |-> TRUE,
     merge_threshold |-> "0.1", layout_reader_model_path |-> "hantian/layoutreader",
     num_reading_labels |-> 10, max_sequence_length |-> 512, batch_size |-> 1,
     confidence_threshold |-> "0.5", use_layoutlmv3 |-> TRUE]

\* the config objects Settings can hand out: a config file changes the
\* values of declared fields only (settings.py:282-286)
Configs ==
    {[DefaultConfig EXCEPT !.algorithm = a, !.column_detection = c,
                           !.use_layoutlmv3 = u] :
        a \in {"spatial", "ml_based", "layoutreader"}, c \in BOOLEAN, u \in BOOLEAN}

\* the attributes ReadingOrderAnalyzer.__init__ sets on the analyzer
AnalyzerAttributes == {"config", "layout_reader_model_path", "device", "model_manager"}

\* reading obj.name raises AttributeError unless the object has the attribute
HasAttr(obj, name) == name \in DOMAIN obj

\* the types of the regions on the explored pages
DetectedTypes == {"Text", "Table", "Figure"}

\* a region as the layout analysis creates it: its reading_order is its
\* place in the list (layout_analyzer.py:291), and steps 1 to 3 keep it
DetectedRegion(i, n, type, layout) ==
    [id |-> i, region_type |-> type, bbox |-> LayoutBox(layout, i, n),
     reading_order |-> i]

\* Page(page_number, image_path, regions): width and height stay None
DetectedPages ==
    UNION {{[kind |-> "Page", width |-> None, height |-> None,
             regions |-> [k \in 1..n |-> DetectedRegion(k - 1, n, types[k], layout)]] :
               types \in [1..n -> DetectedTypes],
               layout \in {"top_down", "bottom_up"}} :
           n \in 0..MaxDetected}

\* lines 337-351: the list of a PageLayout a region is put in; add_region
\* (document.py:270-291) puts the classes of these types in the same lists
ListOf(region) ==
    CASE region.region_type \in {"Text", "Title", "Header", "Footer"} -> "text_regions"
      [] region.region_type = "Table"                  -> "table_regions"
      [] region.region_type = "Figure"                 -> "image_regions"
      [] region.region_type \in {"Equation", "Formula"} -> "formula_regions"
      [] OTHER                                         -> "text_regions"

\* the four lists of a PageLayout filled with the regions of listed, in
\* that order
FilledLayout(listed, width, height) ==
    [kind |-> "PageLayout", width |-> width, height |-> height,
     text_regions    |-> SelectSeq(listed, LAMBDA r : ListOf(r) = "text_regions"),
     table_regions   |-> SelectSeq(listed, LAMBDA r : ListOf(r) = "table_regions"),
     formula_regions |-> SelectSeq(listed, LAMBDA r : ListOf(r) = "formula_regions"),
     image_regions   |-> SelectSeq(listed, LAMBDA r : ListOf(r) = "image_regions")]

\* lines 322-353 for one page: getattr(page, 'width', None) or 2550.0
page_layout(page) ==
    FilledLayout(page.regions,
                 IF page.width = None \/ page.width = <<0>> THEN <<2550>> ELSE page.width,
                 IF page.height = None \/ page.height = <<0>> THEN <<3300>> ELSE page.height)

\* PageLayout.all_regions on region objects (document.py:294-308)
LayoutAllRegions(page) ==
    TheValue({IF \E p \in 1..Len(concat) : concat[p].bbox = None
              THEN concat
              ELSE Sorted(concat,
                          [r \in Range(concat) |->
                              <<r.reading_order, r.bbox[2], r.bbox[1]>>]) :
                 concat \in {page.text_regions \o page.table_regions
                             \o page.formula_regions \o page.image_regions}})

\* page.regions: the list of a Page, the property of a PageLayout
PageRegions(page) ==
    IF page.kind = "PageLayout" THEN LayoutAllRegions(page) ELSE page.regions

\* the page with reading_order write(r) on each of its regions r
WithReadingOrders(page, write) ==
    LET set(list) == [k \in 1..Len(list) |->
                         [list[k] EXCEPT !.reading_order = write[list[k].id]]]
    IN IF page.kind = "PageLayout"
       THEN [page EXCEPT !.text_regions = set(@), !.table_regions = set(@),
                         !.formula_regions = set(@), !.image_regions = set(@)]
       ELSE [page EXCEPT !.regions = set(@)]

\* lines 392-394 for one page: region.reading_order = i + 1 along page.regions
Renumbered(page) ==
    TheValue({WithReadingOrders(page,
                  [id \in {listed[k].id : k \in 1..Len(listed)} |->
                      CHOOSE k \in 1..Len(listed) : listed[k].id = id]) :
                 listed \in {PageRegions(page)}})

\* _analyze_page_reading_order (lines 399-427) on a page of the pipeline:
\* the pages it can leave behind, one for each answer of the ranking model
\* and one for a step of the try block that raises
AnalyzedPages(page) ==
    LET listing == PageRegions(page)
        n       == Len(listing)
        regs    == [i \in 0..(n - 1) |-> listing[i + 1]]
        order   == [i \in 0..(n - 1) |-> listing[i + 1].reading_order]
        written(ord) ==
            WithReadingOrders(page,
                [id \in {regs[i].id : i \in 0..(n - 1)} |->
                    ord[CHOOSE i \in 0..(n - 1) : regs[i].id = id]])
        updated(res) ==
            LET list == [k \in 1..Len(res.ordered) |->
                            [regs[res.ordered[k]] EXCEPT
                                !.reading_order = res.order[res.ordered[k]]]]
            IN IF page.kind = "PageLayout"
               THEN FilledLayout(list, page.width, page.height)
               ELSE [page EXCEPT !.regions = list]
        default == set_default_reading_order(regs, [i \in 0..(n - 1) |-> i], order)
    IN IF n = 0 THEN {page}
       ELSE IF n = 1 THEN {written([i \in {0} |-> 1])}
       ELSE IF ExceedsCapacity(n) \/ ExtractRaises(regs) THEN {written(default)}
       ELSE {updated([order |-> [i \in 0..(n - 1) |-> i + 1], ordered |-> Ascending(n)])}
            \cup (IF coordinate_normalization(ExtractBoxes(regs),
                                              <<page.width, page.height>>).raised
                  THEN {}
                  ELSE {updated(ApplyOrder(order,
                                           parse_logits(Framed(m, n), n, t).ret, n)) :
                           m \in SignalMatrices(n), t \in TieOrders})

\* analyze_reading_order (lines 370-397) on document.pages
AnalyzedDocs(pages) ==
    {analysed \in [DOMAIN pages -> UNION {AnalyzedPages(pages[p]) : p \in DOMAIN pages}] :
        \A p \in DOMAIN pages : analysed[p] \in AnalyzedPages(pages[p])}

\* lines 369-385: a new Page with the regions of page_layout.all_regions
synced_page(layout) ==
    [kind |-> "Page", width |-> layout.width, height |-> layout.height,
     regions |-> LayoutAllRegions(layout)]

InitPipeline ==
    /\ ppc = "step4"
    /\ config \in Configs
    /\ \E n \in 1..MaxDocPages : doc \in [1..n -> DetectedPages]
    /\ plog = <<>>
    /\ ResolverIdle
    /\ AnalyzerIdle
    /\ SingletonIdle

\* lines 315-356: document.pages becomes a list of PageLayout objects
BuildPageLayouts ==
    /\ ppc = "step4"
    /\ doc' = [p \in DOMAIN doc |-> page_layout(doc[p])]
    /\ plog' = Append(plog, "page_layouts")
    /\ ppc' = "reading_order"
    /\ UNCHANGED config

\* lines 359-387: the two attribute reads for the log lines, then
\* analyze_reading_order and the copy back into Page objects. The first
\* reads config.use_layoutreader, the second the analyzer's
\* use_deep_learning_for_columns; a missing attribute raises AttributeError
\* into the handler of line 389.
ReadingOrderStage ==
    /\ ppc = "reading_order"
    /\ IF /\ HasAttr(config, "use_layoutreader")
          /\ "use_deep_learning_for_columns" \in AnalyzerAttributes
       THEN /\ \E analysed \in AnalyzedDocs(doc) :
                  doc' = [p \in DOMAIN doc |-> synced_page(analysed[p])]
            /\ plog' = plog \o <<"analyze_reading_order", "synced">>
            /\ ppc' = "markdown"
       ELSE /\ plog' = Append(plog, "stage_raised")
            /\ ppc' = "stage_except"
            /\ UNCHANGED doc
    /\ UNCHANGED config

\* mutation: the handler lets the exception go on to the handler of line 445
StageExcept_Abort ==
    /\ ppc = "stage_except"
    /\ plog' = Append(plog, "failure")
    /\ ppc' = "returned"
    /\ UNCHANGED <<config, doc>>

\* lines 389-394: the regions of every page are numbered along page.regions
StageExcept ==
    /\ ppc = "stage_except"
    /\ doc' = [p \in DOMAIN doc |-> Renumbered(doc[p])]
    /\ plog' = Append(plog, "renumbered")
    /\ ppc' = "markdown"
    /\ UNCHANGED config

\* lines 396-413: md_generator.generate(document) returns the Markdown text,
\* or raises and the error text is written in its place
GenerateMarkdown ==
    /\ ppc = "markdown"
    /\ \/ plog' = Append(plog, "markdown")
       \/ plog' = Append(plog, "markdown_failed")
    /\ ppc' = "return"
    /\ UNCHANGED <<config, doc>>

\* lines 415-443: the statistics and the result with 'success': True
ReturnSuccess ==
    /\ ppc = "return"
    /\ plog' = Append(plog, "success")
    /\ ppc' = "returned"
    /\ UNCHANGED <<config, doc>>

NextPipeline ==
    /\ \/ BuildPageLayouts
       \/ ReadingOrderStage
       \/ StageExcept
       \/ GenerateMarkdown
       \/ ReturnSuccess
    /\ UNCHANGED <<rvars, avars, svars>>

SpecPipeline == InitPipeline /\ [][NextPipeline]_vars

\* process is sequential code: a run that has started goes on to its return
FairSpecPipeline == SpecPipeline /\ WF_vars(NextPipeline)

----------------------------------------------------------------------------
(* Properties *)

NumRegions == ListLen(regions)

\* every region has one of the numbers 1..n and no two share one
ReadingOrdersDense(order, n) ==
    /\ DOMAIN order = 0..(n - 1)
    /\ Range(order) = 1..n

TopY(region) == IF region.bbox # None THEN region.bbox[2] ELSE 0
LeftX(region) == IF region.bbox # None THEN region.bbox[1] ELSE 0

\* region i comes before region j from top to bottom, then left to right,
\* then in list order
SpatiallyBefore(regs, i, j) ==
    \/ TopY(regs[i]) < TopY(regs[j])
    \/ TopY(regs[i]) = TopY(regs[j]) /\ LeftX(regs[i]) < LeftX(regs[j])
    \/ TopY(regs[i]) = TopY(regs[j]) /\ LeftX(regs[i]) = LeftX(regs[j]) /\ i < j

IsSpatialOrder(order, regs) ==
    /\ ReadingOrdersDense(order, ListLen(regs))
    /\ \A i, j \in DOMAIN regs :
          SpatiallyBefore(regs, i, j) => order[i] < order[j]

IsOriginalOrder(order, regs) ==
    /\ DOMAIN order = DOMAIN regs
    /\ \A i \in DOMAIN regs : order[i] = i + 1

LastStep == IF trace = <<>> THEN "none" ELSE trace[Len(trace)]

\* C1: every list the resolver returns is a permutation of 0..N-1.
C1_Bijection ==
    rpc = "returned" => IsPermutation(ret, length)

\* C2: when a page with N >= 1 regions is finished, the reading_order values
\* of its regions are exactly 1..N, each once, whichever path was taken.
C2_DenseReadingOrder ==
    (pc = "page_done" /\ NumRegions >= 1) => ReadingOrdersDense(ro, NumRegions)

\* C3: on the signal path the region with original index i gets the
\* reading_order order[i] + 1, order being the resolver's output.
C3_RankWrittenOnRegion ==
    (pc = "page_done" /\ LastStep = "apply") =>
        \A i \in DOMAIN ro : ro[i] = predicted[i] + 1

\* C4: a step of the signal path that raises is contained: the page ends
\* with every region numbered, the loop goes on to the later pages and
\* analyze_reading_order returns.
C4_FailureContained ==
    /\ pc # "raised"
    /\ (pc = "page_done" /\ failure # "none") => ReadingOrdersDense(ro, NumRegions)
    /\ pc = "finished" => pagesDone = numPages

C4_Witness ==
    /\ pc = "finished"
    /\ numPages = MaxPages
    /\ failedPages >= 1
    /\ pagesDone = numPages

C6_CapacityGuard ==
    /\ NumRegions > MAX_REGIONS => modelCalls = 0
    /\ pc = "page_done" =>
          /\ NumRegions > MAX_REGIONS =>
                /\ trace = <<"capacity_default">>
                /\ IsSpatialOrder(ro, regions)
          /\ (NumRegions >= 2 /\ NumRegions <= MAX_REGIONS) =>
                trace[1] = "layoutlmv3_order"

C6_Witness ==
    /\ pc = "page_done"
    /\ NumRegions = MAX_REGIONS + 1
    /\ modelCalls = 0

HaveBboxes == \A i \in DOMAIN regions : regions[i].bbox # None

\* C7: a page with at least one region, all with a bbox, always gets to the
\* end of its processing, whatever normalization, scoring and resolving do,
\* and no step leaves the analyzer in a failed state.
C7_ReachesApplied ==
    /\ [](pc # "failed")
    /\ (pc = "analyze_page" /\ NumRegions >= 1 /\ HaveBboxes) ~> (pc = "page_done")

C7_Witness ==
    /\ pc = "page_done"
    /\ NumRegions >= 2
    /\ HaveBboxes
    /\ failure = "predict"

TypePriority(region) ==
    CASE region.region_type = "Header" -> 0 - 1
      [] region.region_type = "Title"  -> 0
      [] region.region_type = "Footer" -> 2
      [] OTHER                         -> 1

Contenders(r) == {i \in DOMAIN prevRet : prevRet[i] = r}

BestScore(r) ==
    LET lg == SliceLogits(logits, length)
    IN CHOOSE v \in {lg[i][r] : i \in Contenders(r)} :
           \A i \in Contenders(r) : lg[i][r] <= v

BestContenders(r) ==
    {i \in Contenders(r) : SliceLogits(logits, length)[i][r] = BestScore(r)}

LowestIndex(S) == CHOOSE i \in S : \A j \in S : i <= j

\* C9: when contenders for a rank have the same score for it, the one with
\* the smallest index keeps the rank and every other contender is moved off.
C9_TieKeepsSmallestIndex ==
    (rpc \in {"loop", "returned"} /\ iteration >= 1) =>
        \A r \in Range(prevRet) :
            (Cardinality(Contenders(r)) > 1 /\ Cardinality(BestContenders(r)) > 1) =>
                /\ ret[LowestIndex(BestContenders(r))] = r
                /\ \A i \in Contenders(r) \ {LowestIndex(BestContenders(r))} :
                      ret[i] # r

C9_Witness ==
    /\ rpc = "loop"
    /\ iteration >= 1
    /\ \E r \in Range(prevRet) :
          /\ Cardinality(BestContenders(r)) > 1
          /\ ret[LowestIndex(BestContenders(r))] = r
          /\ LowestIndex(BestContenders(r)) # LowestIndex(Contenders(r))

\* every order in which the conflicted ranks of ret can be visited
VisitOrders(seq) ==
    {[p \in 1..Len(seq) |-> seq[f[p]]] : f \in Permutations(1..Len(seq))}

\* C10: the resolver's result is a function of the matrix: whatever the
\* order in which the conflicted ranks of an iteration are visited, the
\* iteration ends with the same assignment and the same candidate stacks.
C10_VisitOrderIrrelevant ==
    rpc = "loop" =>
        \A seq \in VisitOrders(ConflictedOrders(ret, length)) :
            ResolveConflicts([orders |-> orders, ret |-> ret],
                             SliceLogits(logits, length), length, ret, seq)
            = ResolveIteration([orders |-> orders, ret |-> ret],
                               SliceLogits(logits, length), length)

\* an iteration that starts with at least two conflicted ranks has run
C10_Witness ==
    /\ rpc = "loop"
    /\ iteration >= 1
    /\ Len(ConflictedOrders(prevRet, length)) >= 2

\* C11: a page without regions is left as it is and a page with one region
\* gets reading_order 1, both without a call of the ranking model; the
\* resolver returns the empty list for length 0 and [0] for length 1.
C11_DegenerateCases ==
    /\ (pc = "page_done" /\ NumRegions = 0) =>
          /\ ro = EmptyList
          /\ trace = <<"empty">>
          /\ modelCalls = 0
    /\ (pc = "page_done" /\ NumRegions = 1) =>
          /\ ro[0] = 1
          /\ trace = <<"single">>
          /\ modelCalls = 0
    /\ \A t \in TieOrders :
          /\ parse_logits(Framed(EmptyList, 0), 0, t).ret = EmptyList
          /\ \A m \in SmallMatrices(1) :
                parse_logits(Framed(m, 1), 1, t).ret = [i \in {0} |-> 0]

C11_Witness ==
    /\ pc = "page_done"
    /\ NumRegions = 1
    /\ ro[0] = 1
    /\ modelCalls = 0

\* C12: for every bbox, outside the page and inverted ones included, and
\* every positive page width and height, coordinate_normalization returns
\* a box with 0 <= left <= right <= 1000 and 0 <= top <= bottom <= 1000;
\* its assertion does not fail.
C12_NormalizedInBounds ==
    pc = "normalize_done" =>
        /\ failure = "none"
        /\ DOMAIN normalized = DOMAIN regions
        /\ \A i \in DOMAIN normalized : ValidBox(normalized[i])

\* an inverted box that starts left of the page and ends beyond it
C12_Witness ==
    /\ pc = "normalize_done"
    /\ regions[0].bbox[1] > pageSize[1][1]
    /\ regions[0].bbox[3] < 0
    /\ regions[0].bbox[4] < regions[0].bbox[2]
    /\ ValidBox(normalized[0])

\* a page width or height that is a number and not above 0
NonPositiveSize ==
    \E d \in 1..2 : pageSize[d] # None /\ pageSize[d][1] <= 0

Normalized == \E k \in DOMAIN trace : trace[k] = "normalize"

\* C13: on a page whose width or height is zero or negative, the
\* normalization ends in an error instead of returning boxes, and the page
\* leaves the signal path without a call of the ranking model.
C13_NonPositiveSizeFails ==
    (NonPositiveSize /\ Normalized) =>
        /\ failure = "normalize"
        /\ normalized = EmptyList
        /\ modelCalls = 0

\* C14: the default ordering of a non-empty region list, regions without a
\* bbox and regions with equal coordinates included, ends without an error
\* and gives every region its own position in 1..N.
C14_FallbackTotal ==
    pc = "default_done" =>
        /\ failure = "none"
        /\ ReadingOrdersDense(ro, NumRegions)
        /\ \A i, j \in DOMAIN ro : i # j => ro[i] # ro[j]

\* a list with a region without bbox and two regions on the same spot
C14_Witness ==
    /\ pc = "default_done"
    /\ \E i, j, k \in DOMAIN regions :
          /\ regions[i].bbox = None
          /\ j # k
          /\ regions[j].bbox # None
          /\ regions[j].bbox = regions[k].bbox
          /\ ro[j] # ro[k]
          /\ ro[i] \in 1..NumRegions

\* every region is a text region with a bbox, and the regions lie in rows
\* of their own: distinct top_y, no vertical overlap
PlainRows ==
    /\ \A i \in DOMAIN regions :
          regions[i].bbox # None /\ regions[i].region_type = "Text"
    /\ \A i, j \in DOMAIN regions :
          i # j => \/ regions[i].bbox[4] <= regions[j].bbox[2]
                   \/ regions[j].bbox[4] <= regions[i].bbox[2]

\* C15: text regions that lie in rows of their own are ordered by top_y
\* ascending by the default ordering, whatever their x positions and their
\* order in the list.
C15_FallbackMonotone ==
    (pc = "default_done" /\ PlainRows) =>
        /\ ReadingOrdersDense(ro, NumRegions)
        /\ \A i, j \in DOMAIN regions :
              TopY(regions[i]) < TopY(regions[j]) => ro[i] < ro[j]

\* three rows listed bottom-up, the lowest row leftmost
C15_Witness ==
    /\ pc = "default_done"
    /\ PlainRows
    /\ NumRegions = 3
    /\ TopY(regions[0]) > TopY(regions[1])
    /\ TopY(regions[1]) > TopY(regions[2])
    /\ LeftX(regions[0]) < LeftX(regions[2])
    /\ ro[2] = 1
    /\ ro[0] = 3

\* the columns in which row i of the score matrix has its maximum
MaxColumns(i) ==
    LET lg == SliceLogits(logits, length)
    IN {j \in 0..(length - 1) : \A k \in 0..(length - 1) : lg[i][k] <= lg[i][j]}

\* every row has one maximum and no two rows have it in the same column
DistinctMaxima ==
    /\ \A i \in 0..(length - 1) : Cardinality(MaxColumns(i)) = 1
    /\ \A i, k \in 0..(length - 1) : i # k => MaxColumns(i) # MaxColumns(k)

\* C16: when the maxima of the rows lie in pairwise distinct columns, the
\* resolver returns for every region the column of its maximum, and no
\* region is reassigned: no candidate beyond the first is taken.
C16_NoConflict ==
    (rpc \in {"loop", "returned"} /\ DistinctMaxima) =>
        /\ \A i \in 0..(length - 1) :
              /\ ret[i] \in MaxColumns(i)
              /\ Len(orders[i]) = length - 1
        /\ prevRet = EmptyList
        /\ iteration <= 1
        /\ (\A i \in 0..(length - 1) : MaxColumns(i) = {i})
              => ret = [i \in 0..(length - 1) |-> i]

C16_Witness ==
    /\ rpc = "returned"
    /\ length = 3
    /\ DistinctMaxima
    /\ ret = [i \in 0..2 |-> (i + 2) % 3]
    /\ iteration = 1

\* the regions the list of the resolver names, as lines 516-519 read it
Covered == Range(predicted) \cap DOMAIN ro

\* C17: on the signal path a region the resolver's output does not cover
\* gets a reading_order behind every covered region, and the uncovered
\* regions follow each other in their original order.
C17_UncoveredAppended ==
    (pc = "page_done" /\ LastStep = "apply") =>
        \A i \in DOMAIN ro \ Covered :
            /\ \A j \in Covered : ro[j] < ro[i]
            /\ \A k \in DOMAIN ro \ Covered : i < k => ro[i] < ro[k]

\* C18: when the resolver's list gives one rank to several regions, the
\* tied regions are ordered by their original index and the reading_order
\* values written on the page are pairwise distinct.
C18_TiedRanksByIndex ==
    (pc = "page_done" /\ LastStep = "apply") =>
        /\ \A i, j \in DOMAIN ro : i # j => ro[i] # ro[j]
        /\ \A i, j \in DOMAIN ro :
              (i < j /\ predicted[i] = predicted[j]) => ro[i] < ro[j]

\* the gap between x-centers above which the spec starts a new column
ColumnThreshold == 100

\* twice the x-center of a region's bbox
XCenter2(region) == region.bbox[1] + region.bbox[3]

\* the column of region i among the regions with a bbox, as the spec's
\* detector forms them: the sorted x-centers are cut wherever two
\* consecutive centers lie more than ColumnThreshold apart
ColumnOf(regs, i) ==
    LET centers == {XCenter2(regs[k]) : k \in {k \in DOMAIN regs : regs[k].bbox # None}}
        starts  == {c \in centers :
                      \E p \in centers :
                          /\ p < c
                          /\ \A q \in centers : q < c => q <= p
                          /\ c - p > 2 * ColumnThreshold}
    IN Cardinality({c \in starts : c <= XCenter2(regs[i])})

Tried(i) == (0..(length - 1)) \ Range(orders[i])

\* the scenario of the spec: both regions prefer rank 0
OneConflictMatrix ==
    [i \in 0..1 |-> [j \in 0..1 |->
        IF i = 0 THEN (IF j = 0 THEN 5 ELSE 1) ELSE (IF j = 0 THEN 4 ELSE 2)]]

\* C20: after an iteration, every rank that was contested at its start is
\* held by a contender with the highest score for it; every other contender
\* has moved to the best-scoring rank of its own row among those it had not
\* tried; a region outside every conflict keeps its rank. Scores [5,1] and
\* [4,2] give [0,1].
C20_IterationStep ==
    /\ (rpc \in {"loop", "returned"} /\ prevRet # EmptyList) =>
          LET lg == SliceLogits(logits, length)
          IN \A i \in 0..(length - 1) :
                LET r == prevRet[i]
                IN IF Cardinality(Contenders(r)) = 1
                   THEN ret[i] = r
                   ELSE /\ \E w \in Contenders(r) :
                              /\ ret[w] = r
                              /\ lg[w][r] = BestScore(r)
                              /\ \A k \in Contenders(r) \ {w} : ret[k] # r
                        /\ ret[i] # r =>
                              /\ ret[i] \in Tried(i)
                              /\ \A c \in Tried(i) : lg[i][ret[i]] <= lg[i][c]
                              /\ \A c \in Range(orders[i]) : lg[i][c] <= lg[i][ret[i]]
    /\ \A t \in TieOrders :
          parse_logits(Framed(OneConflictMatrix, 2), 2, t).ret = [i \in 0..1 |-> i]

\* a conflict that the region with the larger index wins by its score
C20_Witness ==
    /\ rpc = "loop"
    /\ prevRet # EmptyList
    /\ \E i, k \in 0..(length - 1) :
          /\ i < k
          /\ prevRet[i] = prevRet[k]
          /\ SliceLogits(logits, length)[i][prevRet[i]]
                < SliceLogits(logits, length)[k][prevRet[k]]
          /\ ret[k] = prevRet[k]
          /\ ret[i] # prevRet[i]

\* every rank in ret is a column of the sliced matrix, so logits[idx, order]
\* of line 286 reads inside the tensor
RanksInRange == \A i \in DOMAIN ret : ret[i] \in 0..(length - 1)

\* line 261 pops one candidate from every row; each row has length of them
FirstPopSafe ==
    \A i \in 0..(length - 1) :
        Len(ArgsortRow(SliceLogits(logits, length)[i], length, tie)) >= 1

\* C21: the conflict loop runs at most 2 x N times and parse_logits then
\* returns, for every score matrix; no statement of it raises (every pop is
\* from a non-empty list, every read of the matrix is inside it), also when
\* conflicts remain at the cap.
C21_Terminates ==
    /\ [](iteration <= 2 * length)
    /\ [](rpc = "call" => FirstPopSafe)
    /\ [](rpc \in {"loop", "returned"} => (DOMAIN ret = 0..(length - 1) /\ RanksInRange))
    /\ <>(rpc = "returned")

\* the call returned at the cap with a rank still held twice
C21_Witness ==
    /\ rpc = "returned"
    /\ length >= 1
    /\ iteration = 2 * length
    /\ ConflictedOrders(ret, length) # <<>>

\* C22: the warning is logged exactly when the loop stops at the cap with a
\* rank still held by more than one region; a call that returns a
\* conflict-free assignment (N = 0 included) logs no warning.
C22_WarningIffUnresolved ==
    rpc = "returned" =>
        (warned <=> (iteration >= 2 * length /\ ConflictedOrders(ret, length) # <<>>))

\* the regions the pass that starts in this state moves off their rank:
\* every contender of a conflicted rank but the first of the sorted list
Losers ==
    UNION {Range(Tail(SortContenders(SliceLogits(logits, length), length,
                                     IdxesOf(ret, length, r), r))) :
              r \in Range(ConflictedOrders(ret, length))}

\* C25: whenever a region loses a conflict, its candidate stack is not
\* empty, so the branch of lines 298-304 (first unused rank) is never run.
\* A region is a contender of one rank per pass, so its stack at the
\* moment it loses is its stack at the start of the pass.
C25_StackNeverEmpty ==
    (rpc = "loop" /\ iteration < 2 * length) =>
        \A i \in Losers : orders[i] # <<>>

\* a region of a 3-region call has lost twice and sits on its last candidate
C25_Witness ==
    /\ rpc = "loop"
    /\ length >= 3
    /\ \E i \in 0..(length - 1) :
          /\ orders[i] = <<>>
          /\ prevRet # EmptyList
          /\ prevRet[i] # ret[i]

\* region i would win rank r from region h: the order of lines 289-291,
\* descending logit and, for equal logits, ascending index
Beats(lg, i, h, r) ==
    \/ lg[i][r] > lg[h][r]
    \/ lg[i][r] = lg[h][r] /\ i < h

\* region i scores rank r above the rank it holds and would win r from its
\* holder
Blocking(lg, i, r) ==
    /\ lg[i][r] > lg[i][ret[i]]
    /\ \E h \in (0..(length - 1)) \ {i} : ret[h] = r /\ Beats(lg, i, h, r)

\* C27: a conflict-free assignment the resolver returns is stable: no
\* region scores a rank above its own and would also win that rank from the
\* region holding it.
C27_Stable ==
    (rpc = "returned" /\ ConflictedOrders(ret, length) = <<>>) =>
        \A i, r \in 0..(length - 1) : ~Blocking(SliceLogits(logits, length), i, r)

\* a conflict-free result after several passes in which a region ended on
\* a rank it scores below another one
C27_Witness ==
    /\ rpc = "returned"
    /\ iteration >= 3
    /\ ConflictedOrders(ret, length) = <<>>
    /\ \E i, r \in 0..(length - 1) :
          SliceLogits(logits, length)[i][r] > SliceLogits(logits, length)[i][ret[i]]

\* the positions of _layoutlmv3_order inside its try block before the
\* first write of line 518
BeforeApply == pc \in {"normalize", "get_model", "predict", "parse_logits"}

\* C23: no reading_order and no page list is written while the page is
\* normalized, scored and resolved, and a page on which one of these steps
\* raised ends with the values of the handler alone (i + 1 for the region
\* at index i), whatever the regions held before and whatever the model
\* would have answered.
C23_NoWriteBeforeApply ==
    /\ [][BeforeApply => (ro' = ro /\ pageRegions' = pageRegions)]_vars
    /\ []((pc = "page_done" /\ failure \in {"normalize", "predict"}) =>
             /\ ro = [i \in DOMAIN regions |-> i + 1]
             /\ predicted = EmptyList)

\* the scoring raised on a page whose regions arrived with the detection
\* index as reading_order
C23_Witness ==
    /\ pc = "page_done"
    /\ failure = "predict"
    /\ modelCalls = 1
    /\ NumRegions >= 3
    /\ ro = [i \in DOMAIN regions |-> i + 1]

\* the places of a step in the trace of the current page
StepsAt(step) == {k \in DOMAIN trace : trace[k] = step}

\* step a was the step right before every occurrence of step b
RightBefore(a, b) == \A k \in StepsAt(b) : k > 1 /\ trace[k - 1] = a

\* C24: on a page the steps run in the order normalization, scoring,
\* resolving, applying, each at most once: the ranking model is asked only
\* after the normalization has returned its boxes, at most once per page;
\* the resolver runs only on the logits of a model call that did not
\* raise; the ranks are applied only after the resolver has returned.
C24_StrictPipeline ==
    /\ modelCalls <= 1
    /\ \A step \in {"normalize", "get_model", "predict", "parse_logits", "apply"} :
          Cardinality(StepsAt(step)) <= 1
    /\ RightBefore("normalize", "get_model")
    /\ RightBefore("get_model", "predict")
    /\ RightBefore("predict", "parse_logits")
    /\ RightBefore("parse_logits", "apply")
    /\ StepsAt("predict") # {} =>
          /\ modelCalls = 1
          /\ failure \in {"none", "predict"}
          /\ DOMAIN normalized = DOMAIN regions
          /\ \A i \in DOMAIN normalized : ValidBox(normalized[i])
    /\ StepsAt("parse_logits") # {} =>
          /\ failure = "none"
          /\ length = NumRegions
          /\ DOMAIN logits = 0..(length + 1)
    /\ StepsAt("apply") # {} => DOMAIN predicted = DOMAIN regions

\* a page that went through the whole signal path
C24_Witness ==
    /\ pc = "page_done"
    /\ trace = <<"layoutlmv3_order", "extract", "normalize", "get_model",
                 "predict", "parse_logits", "apply">>
    /\ modelCalls = 1

\* C26: when the processing of a page ends, the page (Page or PageLayout)
\* lists exactly the regions it listed before, each once: the list has N
\* entries and every region is among them.
C26_RegionsPreserved ==
    pc = "page_done" =>
        /\ ListLen(pageRegions) = NumRegions
        /\ Range(pageRegions) = DOMAIN regions

\* C30: whatever the interleaving of the get_model calls, a key's model is
\* initialised at most once, the callers of one key all get the same
\* instance, and a key whose initialisation has only failed has no entry.
C30_InitialisedOnce ==
    /\ \A k \in ModelKeys : inits[k] <= 1
    /\ \A v, w \in Workers :
          (/\ workers[v].pc = "returned"
           /\ workers[w].pc = "returned"
           /\ workers[v].key = workers[w].key)
          => workers[v].got = workers[w].got
    /\ \A k \in ModelKeys : inits[k] = 0 => models[k] = NoModel

\* the places of an event in the log of the pipeline run
LoggedAt(event) == {k \in DOMAIN plog : plog[k] = event}

MarkdownStarted == LoggedAt("markdown") \cup LoggedAt("markdown_failed")

\* C28: with the default ReadingOrderConfig, a run whose steps 1 to 3
\* succeeded has called analyze_reading_order on the document by the time
\* Markdown generation starts.
C28_AnalyzeBeforeMarkdown ==
    (config = DefaultConfig /\ MarkdownStarted # {}) =>
        \E a \in LoggedAt("analyze_reading_order") :
            \A m \in MarkdownStarted : a < m

\* the handler of the reading-order stage numbers the regions of a page
\* 1..N along the list the page had when the handler started
NumberedInPlace(before, after) ==
    /\ Len(after) = Len(before)
    /\ \A k \in 1..Len(before) :
          /\ after[k].id = before[k].id
          /\ after[k].reading_order = k

\* C29: when the reading-order stage raises, process goes on: the handler
\* numbers the regions of every page 1..N in the order the page lists
\* them, Markdown generation runs after it and the run returns the result
\* with success, never the failure result.
C29_StageFailureContained ==
    /\ [][ppc = "stage_except" =>
             \A p \in DOMAIN doc :
                 NumberedInPlace(PageRegions(doc[p]), PageRegions(doc'[p]))]_vars
    /\ [](LoggedAt("failure") = {})
    /\ []((ppc = "returned" /\ LoggedAt("stage_raised") # {}) =>
             \E r \in LoggedAt("renumbered"), m \in MarkdownStarted,
                s \in LoggedAt("success") : r < m /\ m < s)
    /\ (LoggedAt("stage_raised") # {}) ~> (ppc = "returned" /\ LoggedAt("success") # {})

\* a run whose stage raised has returned; one of its pages lists two
\* regions, the lower one first, numbered 1 and 2
C29_Witness ==
    /\ ppc = "returned"
    /\ LoggedAt("stage_raised") # {}
    /\ LoggedAt("success") # {}
    /\ \E p \in DOMAIN doc :
          /\ Len(PageRegions(doc[p])) = 2
          /\ PageRegions(doc[p])[1].reading_order = 1
          /\ PageRegions(doc[p])[2].reading_order = 2
          /\ PageRegions(doc[p])[1].bbox[2] > PageRegions(doc[p])[2].bbox[2]

====
